---------------------------- MODULE Spec2Model ----------------------------
(***************************************************************************)
(* Model of src/types.rs of rusty-git: the two validated string wrappers   *)
(* GitUrl and BranchName, their FromStr constructors, their Display        *)
(* implementations and the serde Deserialize implementation of BranchName. *)
(*                                                                         *)
(* A Rust `char` is modelled by its Unicode scalar value (a natural        *)
(* number), a `&str`/`String` by the sequence of its chars.  The regular   *)
(* expression of GitUrl::from_str is kept as the pattern text of the       *)
(* source; Regex::new is modelled by a parser of that text and             *)
(* Regex::is_match by the set of positions at which a match can end.       *)
(***************************************************************************)
EXTENDS Integers, Sequences, FiniteSets, TLC

VARIABLES
    caller,       \* how the library is driven: "parse" (FromStr and Display) or "serde"
    input,        \* the &str the caller hands to the constructors
    gitUrl,       \* result of GitUrl::from_str(input), or NoCall
    urlText,      \* the String written by Display for the GitUrl, or NoText
    gitUrlAgain,  \* result of GitUrl::from_str(urlText), or NoCall
    branchName,   \* result of BranchName::from_str(input), or NoCall
    refText,      \* the String written by Display for the BranchName, or NoText
    branchNameAgain, \* result of BranchName::from_str(refText), or NoCall
    field,        \* the document field the deserializer was positioned on, or NoField
    deserialized  \* result of BranchName::deserialize, or NoCall

vars == <<caller, input, gitUrl, urlText, gitUrlAgain, branchName, refText,
          branchNameAgain, field, deserialized>>

(***************************************************************************)
(* Characters and strings                                                  *)
(***************************************************************************)

\* The printable ASCII characters in code order, U+0020 .. U+007E (the entry
\* of U+0060, which no string literal of the source uses, is spelled out).
ASCII ==
    << " ", "!", "\"", "#", "$", "%", "&", "'", "(", ")", "*", "+", ",", "-", ".", "/",
       "0", "1", "2", "3", "4", "5", "6", "7", "8", "9", ":", ";", "<", "=", ">", "?",
       "@", "A", "B", "C", "D", "E", "F", "G", "H", "I", "J", "K", "L", "M", "N", "O",
       "P", "Q", "R", "S", "T", "U", "V", "W", "X", "Y", "Z", "[", "\\", "]", "^", "_",
       "grave", "a", "b", "c", "d", "e", "f", "g", "h", "i", "j", "k", "l", "m", "n", "o",
       "p", "q", "r", "s", "t", "u", "v", "w", "x", "y", "z", "{", "|", "}", "~" >>

\* The scalar value of a printable ASCII character.
Ord(ch) == 31 + (CHOOSE k \in 1..Len(ASCII) : ASCII[k] = ch)

\* A string literal of the source, as the sequence of its chars.
Str(lit) == [k \in 1..Len(lit) |-> Ord(lit[k])]

\* char::is_ascii_control: U+0000 ..= U+001F, and U+007F.
is_ascii_control(c) == c \in 0..31 \/ c = 127

\* Perl classes of the regex crate (Unicode aware), on U+0000 .. U+00FF:
\* \d is the decimal digits, \w the alphabetic characters, marks, decimal
\* digits and connector punctuation.
PerlDigit(c) == c \in 48..57

PerlWord(c) ==
    \/ c \in 48..57
    \/ c \in 65..90
    \/ c = 95
    \/ c \in 97..122
    \/ c \in {170, 181, 186}
    \/ c \in 192..214
    \/ c \in 216..246
    \/ c \in 248..255

(***************************************************************************)
(* The regular expression of GitUrl::from_str                              *)
(***************************************************************************)

\* Faulty variants of the pattern: "https" without its "?", no "$" at the
\* end, the last group left unclosed, a "^" put in front.
PATTERN_https_only ==
    << "(", "?", ":", "g", "i", "t", "|", "s", "s", "h", "|", "h", "t", "t", "p",
       "s", "|", "g", "i", "t", "@", "[", "-", "\\", "w", ".", "]", "+", ")",
       ":", "(", "/", "/", ")", "?", "(", ".", "*", "?", ")", "(", "\\", ".", "g",
       "i", "t", ")", "(", "/", "?", "|", "\\", "#", "[", "-", "\\", "d", "\\", "w",
       ".", "_", "]", "+", "?", ")", "$" >>

PATTERN_no_end_anchor ==
    << "(", "?", ":", "g", "i", "t", "|", "s", "s", "h", "|", "h", "t", "t", "p",
       "s", "?", "|", "g", "i", "t", "@", "[", "-", "\\", "w", ".", "]", "+", ")",
       ":", "(", "/", "/", ")", "?", "(", ".", "*", "?", ")", "(", "\\", ".", "g",
       "i", "t", ")", "(", "/", "?", "|", "\\", "#", "[", "-", "\\", "d", "\\", "w",
       ".", "_", "]", "+", "?", ")" >>

PATTERN_unclosed_group ==
    << "(", "?", ":", "g", "i", "t", "|", "s", "s", "h", "|", "h", "t", "t", "p",
       "s", "?", "|", "g", "i", "t", "@", "[", "-", "\\", "w", ".", "]", "+", ")",
       ":", "(", "/", "/", ")", "?", "(", ".", "*", "?", ")", "(", "\\", ".", "g",
       "i", "t", ")", "(", "/", "?", "|", "\\", "#", "[", "-", "\\", "d", "\\", "w",
       ".", "_", "]", "+", "?", "$" >>

PATTERN_anchored_start ==
    << "^", "(", "?", ":", "g", "i", "t", "|", "s", "s", "h", "|", "h", "t", "t", "p",
       "s", "?", "|", "g", "i", "t", "@", "[", "-", "\\", "w", ".", "]", "+", ")",
       ":", "(", "/", "/", ")", "?", "(", ".", "*", "?", ")", "(", "\\", ".", "g",
       "i", "t", ")", "(", "/", "?", "|", "\\", "#", "[", "-", "\\", "d", "\\", "w",
       ".", "_", "]", "+", "?", ")", "$" >>

\* The pattern text handed to Regex::new (the Rust string literal with its
\* escapes resolved):
\*   (?:git|ssh|https?|git@[-\w.]+):(//)?(.*?)(\.git)(/?|\#[-\d\w._]+?)$
PATTERN ==
    << "(", "?", ":", "g", "i", "t", "|", "s", "s", "h", "|", "h", "t", "t", "p",
       "s", "?", "|", "g", "i", "t", "@", "[", "-", "\\", "w", ".", "]", "+", ")",
       ":", "(", "/", "/", ")", "?", "(", ".", "*", "?", ")", "(", "\\", ".", "g",
       "i", "t", ")", "(", "/", "?", "|", "\\", "#", "[", "-", "\\", "d", "\\", "w",
       ".", "_", "]", "+", "?", ")", "$" >>

\* Punctuation the regex syntax allows to be escaped into a literal.
EscapablePunct ==
    {"\\", ".", "+", "*", "?", "(", ")", "|", "[", "]", "{", "}", "^", "$", "#",
     "&", "-", "~"}

ParseError == [ok |-> FALSE]
Parsed(re, pos) == [ok |-> TRUE, re |-> re, pos |-> pos]

\* One item of a bracketed class: a range of chars or a Perl class.
RangeItem(lo, hi) == [perl |-> FALSE, lo |-> lo, hi |-> hi]
PerlItem(name) == [perl |-> TRUE, lo |-> Ord(name), hi |-> Ord(name)]

\* The items of a bracketed class, from position i (after the "[") on.
RECURSIVE ParseClass(_, _, _)
ParseClass(p, i, items) ==
    IF i > Len(p) THEN ParseError
    ELSE IF p[i] = "]" /\ items # {} THEN Parsed([op |-> "class", items |-> items], i + 1)
    ELSE IF p[i] = "\\" THEN
        IF i + 1 > Len(p) THEN ParseError
        ELSE IF p[i + 1] \in {"w", "d"}
             THEN ParseClass(p, i + 2, items \cup {PerlItem(p[i + 1])})
        ELSE IF p[i + 1] \in EscapablePunct
             THEN ParseClass(p, i + 2, items \cup {RangeItem(Ord(p[i + 1]), Ord(p[i + 1]))})
        ELSE ParseError
    ELSE IF i + 2 <= Len(p) /\ p[i + 1] = "-" /\ p[i + 2] \notin {"]", "\\"} THEN
        IF Ord(p[i]) <= Ord(p[i + 2])
        THEN ParseClass(p, i + 3, items \cup {RangeItem(Ord(p[i]), Ord(p[i + 2]))})
        ELSE ParseError
    ELSE ParseClass(p, i + 1, items \cup {RangeItem(Ord(p[i]), Ord(p[i]))})

\* A repetition operator after the atom a, with its optional lazy marker
\* (laziness changes which match is reported, not whether one exists).
Postfix(p, a) ==
    IF a.pos <= Len(p) /\ p[a.pos] \in {"?", "*", "+"} THEN
        LET lazy == a.pos + 1 <= Len(p) /\ p[a.pos + 1] = "?"
        IN  Parsed([op |-> "rep", kind |-> p[a.pos], lazy |-> lazy, sub |-> a.re],
                   IF lazy THEN a.pos + 2 ELSE a.pos + 1)
    ELSE a

RECURSIVE ParseAlt(_, _)
RECURSIVE ParseCat(_, _)
RECURSIVE ParseAtom(_, _)

\* alternation := concatenation ("|" concatenation)*
ParseAlt(p, i) ==
    LET c == ParseCat(p, i)
    IN  IF ~c.ok THEN c
        ELSE IF c.pos <= Len(p) /\ p[c.pos] = "|" THEN
            LET r == ParseAlt(p, c.pos + 1)
            IN  IF ~r.ok THEN r
                ELSE Parsed([op |-> "alt", l |-> c.re, r |-> r.re], r.pos)
        ELSE c

\* concatenation := (atom repetition?)*
ParseCat(p, i) ==
    IF i > Len(p) \/ p[i] \in {"|", ")"} THEN Parsed([op |-> "empty"], i)
    ELSE
        LET a == ParseAtom(p, i)
        IN  IF ~a.ok THEN a
            ELSE
                LET q == Postfix(p, a)
                    r == ParseCat(p, q.pos)
                IN  IF ~r.ok THEN r
                    ELSE Parsed([op |-> "cat", l |-> q.re, r |-> r.re], r.pos)

\* atom := group | class | escape | "." | "^" | "$" | literal
ParseAtom(p, i) ==
    IF p[i] = "(" THEN
        LET start == IF i + 2 <= Len(p) /\ p[i + 1] = "?" /\ p[i + 2] = ":"
                     THEN i + 3 ELSE i + 1
            g == ParseAlt(p, start)
        IN  IF ~g.ok THEN g
            ELSE IF g.pos <= Len(p) /\ p[g.pos] = ")" THEN Parsed(g.re, g.pos + 1)
            ELSE ParseError
    ELSE IF p[i] = "[" THEN ParseClass(p, i + 1, {})
    ELSE IF p[i] = "\\" THEN
        IF i + 1 > Len(p) THEN ParseError
        ELSE IF p[i + 1] \in {"w", "d"}
             THEN Parsed([op |-> "class", items |-> {PerlItem(p[i + 1])}], i + 2)
        ELSE IF p[i + 1] \in EscapablePunct
             THEN Parsed([op |-> "lit", c |-> Ord(p[i + 1])], i + 2)
        ELSE ParseError
    ELSE IF p[i] \in {"?", "*", "+"} THEN ParseError
    ELSE IF p[i] = "." THEN Parsed([op |-> "dot"], i + 1)
    ELSE IF p[i] = "^" THEN Parsed([op |-> "start"], i + 1)
    ELSE IF p[i] = "$" THEN Parsed([op |-> "end"], i + 1)
    ELSE Parsed([op |-> "lit", c |-> Ord(p[i])], i + 1)

\* Regex::new: the compiled expression, or an error for a malformed pattern
\* (an unclosed or unopened group, an unclosed class, a dangling repetition,
\* an unknown escape).
Regex_new(p) ==
    LET r == ParseAlt(p, 1)
    IN  IF r.ok /\ r.pos = Len(p) + 1 THEN [tag |-> "Ok", re |-> r.re]
        ELSE [tag |-> "Err"]

\* Whether the char c belongs to a bracketed class.
ClassHas(items, c) ==
    \E it \in items :
        IF it.perl
        THEN IF it.lo = Ord("w") THEN PerlWord(c) ELSE PerlDigit(c)
        ELSE it.lo <= c /\ c <= it.hi

\* The offsets (0 .. Len(s)) at which a match of re that starts at offset i
\* of s can end.
RECURSIVE Ends(_, _, _)
RECURSIVE Closure(_, _, _)
Ends(re, s, i) ==
    CASE re.op = "empty" -> {i}
      [] re.op = "lit"   -> IF i < Len(s) /\ s[i + 1] = re.c THEN {i + 1} ELSE {}
      [] re.op = "class" -> IF i < Len(s) /\ ClassHas(re.items, s[i + 1]) THEN {i + 1} ELSE {}
      [] re.op = "dot"   -> IF i < Len(s) /\ s[i + 1] # 10 THEN {i + 1} ELSE {}
      [] re.op = "start" -> IF i = 0 THEN {i} ELSE {}
      [] re.op = "end"   -> IF i = Len(s) THEN {i} ELSE {}
      [] re.op = "cat"   -> UNION {Ends(re.r, s, j) : j \in Ends(re.l, s, i)}
      [] re.op = "alt"   -> Ends(re.l, s, i) \cup Ends(re.r, s, i)
      [] re.op = "rep"   ->
            CASE re.kind = "?" -> {i} \cup Ends(re.sub, s, i)
              [] re.kind = "*" -> Closure(re.sub, s, {i})
              [] re.kind = "+" -> Closure(re.sub, s, Ends(re.sub, s, i))

\* The offsets reachable from those of S by further matches of sub.
Closure(sub, s, S) ==
    LET N == S \cup UNION {Ends(sub, s, j) : j \in S}
    IN  IF N = S THEN S ELSE Closure(sub, s, N)

\* Regex::is_match: the expression matches somewhere in s (the search is not
\* anchored at the start of s).
is_match(re, s) == \E i \in 0..Len(s) : Ends(re, s, i) # {}

(***************************************************************************)
(* Results, wrapper types, rendering                                       *)
(***************************************************************************)

NoCall == [tag |-> "NoCall"]
Ok(v) == [tag |-> "Ok", val |-> v]
Err(e) == [tag |-> "Err", err |-> e]
\* The outcome of a call that unwinds instead of returning.
Panicked == [tag |-> "Panic"]

None == [tag |-> "None"]
Some(v) == [tag |-> "Some", val |-> v]

\* String::from(&str): a fresh String holding the chars of the slice.
String_from(s) == [k \in 1..Len(s) |-> s[k]]

\* struct GitUrl { value: String } and struct BranchName { value: String }.
GitUrl(value) == [type |-> "GitUrl", value |-> value]
BranchName(value) == [type |-> "BranchName", value |-> value]

\* `let re = Regex::new(PATTERN)`, compiled by every call of from_str.
re == Regex_new(PATTERN)

\* GitUrl::from_str: `.unwrap()` panics on a pattern that does not compile.
GitUrl_from_str(value) ==
    IF re.tag = "Err" THEN Panicked
    ELSE IF is_match(re.re, value) THEN Ok(GitUrl(String_from(value)))
    ELSE Err("InvalidUrl")

\* Faulty variant of fmt: write!(f, "{:?}", self.value), the string between
\* double quotes (U+0022).
fmt_debug(self, f) == f \o <<34>> \o self.value \o <<34>>

\* Display::fmt of both wrappers, write!(f, "{}", self.value): the chars of
\* the wrapped string are appended to what the formatter f holds.
fmt(self, f) == f \o self.value

\* Faulty variant of the rendering: a line feed after the value, as writeln!
\* writes it.
to_string_line(self) == self.value \o <<10>>

\* ToString::to_string: fmt into an empty buffer.
to_string(self) == fmt(self, <<>>)

(***************************************************************************)
(* Reference names                                                         *)
(***************************************************************************)

INVALID_REFERENCE_CHARS == Str(<<" ", "~", "^", ":", "\\">>)
INVALID_REFERENCE_START == Str(<<"-">>)
INVALID_REFERENCE_END == Str(<<".">>)

\* str::starts_with, str::ends_with and str::contains for a &str pattern.
starts_with(s, pat) == Len(pat) <= Len(s) /\ SubSeq(s, 1, Len(pat)) = pat
ends_with(s, pat) ==
    Len(pat) <= Len(s) /\ SubSeq(s, Len(s) - Len(pat) + 1, Len(s)) = pat
contains(s, pat) ==
    \E i \in 0..(Len(s) - Len(pat)) : SubSeq(s, i + 1, i + Len(pat)) = pat

\* Faulty variant of is_valid_reference_name: the check of "/." left out.
is_valid_reference_name_no_slash_dot(name) ==
    /\ ~starts_with(name, INVALID_REFERENCE_START)
    /\ ~ends_with(name, INVALID_REFERENCE_END)
    /\ \A k \in 1..Len(name) :
          /\ ~is_ascii_control(name[k])
          /\ \A n \in 1..Len(INVALID_REFERENCE_CHARS) :
                name[k] # INVALID_REFERENCE_CHARS[n]
    /\ ~contains(name, Str(<<"@", "{">>))
    /\ ~contains(name, Str(<<".", ".">>))
    /\ name # Str(<<"@">>)

is_valid_reference_name(name) ==
    /\ ~starts_with(name, INVALID_REFERENCE_START)
    /\ ~ends_with(name, INVALID_REFERENCE_END)
    /\ \A k \in 1..Len(name) :
          /\ ~is_ascii_control(name[k])
          /\ \A n \in 1..Len(INVALID_REFERENCE_CHARS) :
                name[k] # INVALID_REFERENCE_CHARS[n]
    /\ ~contains(name, Str(<<"/", ".">>))
    /\ ~contains(name, Str(<<"@", "{">>))
    /\ ~contains(name, Str(<<".", ".">>))
    /\ name # Str(<<"@">>)

BranchName_from_str(s) ==
    IF is_valid_reference_name(s) THEN Ok(BranchName(String_from(s)))
    ELSE Err("InvalidRefName")

(***************************************************************************)
(* Deserialization of BranchName                                           *)
(***************************************************************************)

\* The document field a deserializer is positioned on: a string, or a value
\* of another type.
NoField == [kind |-> "none"]
StringField(s) == [kind |-> "string", s |-> s]
OtherField == [kind |-> "other"]

\* String::deserialize: the string of a string field, else the
\* deserializer's own error.
String_deserialize(deserializer) ==
    IF deserializer.kind = "string" THEN Ok(String_from(deserializer.s))
    ELSE Err([de |-> "invalid type", msg |-> "none"])

\* de::Error::custom(e): a deserializer error whose message is the Display
\* text of the error e.
de_Error_custom(e) == [de |-> "custom", msg |-> e]

\* Faulty variants of BranchName::deserialize: the extracted string wrapped
\* without validation; the extracted string trimmed of the spaces at its
\* two ends before it is validated.
BranchName_deserialize_unvalidated(deserializer) ==
    LET s == String_deserialize(deserializer)
    IN  IF s.tag = "Err" THEN s ELSE Ok(BranchName(s.val))

RECURSIVE trim(_)
trim(s) ==
    IF Len(s) > 0 /\ s[1] = 32 THEN trim(Tail(s))
    ELSE IF Len(s) > 0 /\ s[Len(s)] = 32 THEN trim(SubSeq(s, 1, Len(s) - 1))
    ELSE s

BranchName_deserialize_trimmed(deserializer) ==
    LET s == String_deserialize(deserializer)
    IN  IF s.tag = "Err" THEN s
        ELSE
            LET r == BranchName_from_str(trim(s.val))
            IN  IF r.tag = "Err" THEN Err(de_Error_custom(r.err)) ELSE r

\* BranchName::deserialize: `?` returns the extraction error as it is; the
\* validation error is mapped by de::Error::custom.
BranchName_deserialize(deserializer) ==
    LET s == String_deserialize(deserializer)
    IN  IF s.tag = "Err" THEN s
        ELSE
            LET r == BranchName_from_str(s.val)
            IN  IF r.tag = "Err" THEN Err(de_Error_custom(r.err)) ELSE r

(***************************************************************************)
(* Inputs                                                                  *)
(***************************************************************************)

\* Most tokens of an input built from URL tokens, most chars of an input
\* built from reference-name chars, most tokens of a prefix put before an
\* accepted URL.
MaxUrlTokens == 3
MaxRefLen == 3
MaxPrefixTokens == 1

\* The concatenations of at most n strings of T.
RECURSIVE Concats(_, _)
Concats(T, n) ==
    IF n = 0 THEN {<<>>}
    ELSE LET shorter == Concats(T, n - 1)
         IN  shorter \cup {t \o u : t \in T, u \in shorter}

\* Pieces of Git URLs and of the strings the grammar is to reject.
UrlTokens ==
    { Str(<<"g", "i", "t", ":">>), Str(<<"s", "s", "h", ":">>),
      Str(<<"h", "t", "t", "p", ":">>), Str(<<"h", "t", "t", "p", "s", ":">>),
      Str(<<"g", "i", "t", "@">>), Str(<<"g", "i", "t", "@", "a">>),
      Str(<<"f", "i", "l", "e", ":", "/", "/">>),
      Str(<<"r", "s", "y", "n", "c", ":", "/", "/">>),
      Str(<<".", "g", "i", "t">>), Str(<<"a">>), Str(<<":">>), Str(<<"/">>),
      Str(<<"#">>), Str(<<"#", "a">>), <<10>> }

\* What is put before an accepted URL.
PrefixTokens ==
    { Str(<<"/">>), Str(<<"g", "i", "t", ":">>),
      Str(<<"f", "i", "l", "e", ":", "/", "/">>), <<10>> }

\* The chars the reference-name rules speak of, the chars at the edges of
\* the ASCII control ranges (U+0000, U+0020; U+007E, U+007F, U+0080) and a
\* plain letter.
RefChars ==
    { Ord("-"), Ord("."), Ord("/"), Ord("@"), Ord("{"), Ord(" "), Ord("~"),
      Ord("^"), Ord(":"), Ord("\\"), Ord("a"), 0, 127, 128 }

UrlInputs == Concats(UrlTokens, MaxUrlTokens)
RefInputs == Concats({<<c>> : c \in RefChars}, MaxRefLen)
Inputs == UrlInputs \cup RefInputs
Prefixes == Concats(PrefixTokens, MaxPrefixTokens)

(***************************************************************************)
(* The caller: one input, the constructors, the renderings                 *)
(***************************************************************************)

Init ==
    /\ caller \in {"parse", "serde"}
    /\ input \in Inputs
    /\ gitUrl = NoCall
    /\ urlText = None
    /\ gitUrlAgain = NoCall
    /\ branchName = NoCall
    /\ refText = None
    /\ branchNameAgain = NoCall
    /\ field = NoField
    /\ deserialized = NoCall

\* input.parse::<GitUrl>()
ParseUrl ==
    /\ caller = "parse"
    /\ gitUrl.tag = "NoCall"
    /\ gitUrl' = GitUrl_from_str(input)
    /\ UNCHANGED <<caller, input, urlText, gitUrlAgain, branchName, refText,
                   branchNameAgain, field, deserialized>>

\* url.to_string()
DisplayUrl ==
    /\ caller = "parse"
    /\ gitUrl.tag = "Ok"
    /\ urlText.tag = "None"
    /\ urlText' = Some(to_string(gitUrl.val))
    /\ UNCHANGED <<caller, input, gitUrl, gitUrlAgain, branchName, refText,
                   branchNameAgain, field, deserialized>>

\* the rendered text parsed again
ReparseUrl ==
    /\ caller = "parse"
    /\ urlText.tag = "Some"
    /\ gitUrlAgain.tag = "NoCall"
    /\ gitUrlAgain' = GitUrl_from_str(urlText.val)
    /\ UNCHANGED <<caller, input, gitUrl, urlText, branchName, refText,
                   branchNameAgain, field, deserialized>>

\* input.parse::<BranchName>()
ParseBranch ==
    /\ caller = "parse"
    /\ branchName.tag = "NoCall"
    /\ branchName' = BranchName_from_str(input)
    /\ UNCHANGED <<caller, input, gitUrl, urlText, gitUrlAgain, refText,
                   branchNameAgain, field, deserialized>>

\* branch.to_string()
DisplayBranch ==
    /\ caller = "parse"
    /\ branchName.tag = "Ok"
    /\ refText.tag = "None"
    /\ refText' = Some(to_string(branchName.val))
    /\ UNCHANGED <<caller, input, gitUrl, urlText, gitUrlAgain, branchName,
                   branchNameAgain, field, deserialized>>

\* the rendered text parsed again
ReparseBranch ==
    /\ caller = "parse"
    /\ refText.tag = "Some"
    /\ branchNameAgain.tag = "NoCall"
    /\ branchNameAgain' = BranchName_from_str(refText.val)
    /\ UNCHANGED <<caller, input, gitUrl, urlText, gitUrlAgain, branchName, refText,
                   field, deserialized>>

\* BranchName::deserialize on a document whose field holds the input as a
\* string, or holds a value that is no string.
Deserialize ==
    /\ caller = "serde"
    /\ deserialized.tag = "NoCall"
    /\ \E f \in {StringField(input), OtherField} :
          /\ field' = f
          /\ deserialized' = BranchName_deserialize(f)
    /\ UNCHANGED <<caller, input, gitUrl, urlText, gitUrlAgain, branchName, refText,
                   branchNameAgain>>

Next ==
    \/ ParseUrl
    \/ DisplayUrl
    \/ ReparseUrl
    \/ ParseBranch
    \/ DisplayBranch
    \/ ReparseBranch
    \/ Deserialize

Spec == Init /\ [][Next]_vars

(***************************************************************************)
(* The grammar and the rules as the specification words them               *)
(***************************************************************************)

\* The chars of s from offset i up to offset j.
Slice(s, i, j) == SubSeq(s, i + 1, j)

\* A word character, a hyphen (U+002D) or a dot (U+002E).
WordHyphenDot(c) == PerlWord(c) \/ c = 45 \/ c = 46

\* git:  ssh:  http:  https:  or  git@<host>:  with a host of one or more
\* word characters, hyphens and dots.
IsScheme(w) ==
    \/ w = <<103, 105, 116, 58>>
    \/ w = <<115, 115, 104, 58>>
    \/ w = <<104, 116, 116, 112, 58>>
    \/ w = <<104, 116, 116, 112, 115, 58>>
    \/ /\ Len(w) >= 6
       /\ SubSeq(w, 1, 4) = <<103, 105, 116, 64>>
       /\ w[Len(w)] = 58
       /\ \A k \in 5..(Len(w) - 1) : WordHyphenDot(w[k])

\* Nothing, a single "/" (U+002F), or "#" (U+0023) and one or more word
\* characters, hyphens and dots.
IsTrailer(w) ==
    \/ w = <<>>
    \/ w = <<47>>
    \/ /\ Len(w) >= 2
       /\ w[1] = 35
       /\ \A k \in 2..Len(w) : WordHyphenDot(w[k])

\* ".git" stands at offset k of s and a permitted trailer runs from there to
\* the end of s.
DotGitTrailerAt(s, k) ==
    /\ k + 4 <= Len(s)
    /\ Slice(s, k, k + 4) = <<46, 103, 105, 116>>
    /\ IsTrailer(Slice(s, k + 4, Len(s)))

\* s ends with ".git" and a permitted trailer.
EndsWithDotGitTrailer(s) == \E k \in 0..Len(s) : DotGitTrailerAt(s, k)

\* s contains, in order, a scheme prefix, any chars at all (the optional "//"
\* among them), ".git" and a permitted trailer reaching the end of s.
GrammarAnyChars(s) ==
    \E k \in 0..Len(s) :
        /\ DotGitTrailerAt(s, k)
        /\ \E j \in 1..k :
              /\ s[j] = 58
              /\ \E i \in 0..(j - 1) : IsScheme(Slice(s, i, j))

\* The same, with no line feed (U+000A) between the scheme prefix and ".git".
GrammarOneLine(s) ==
    \E k \in 0..Len(s) :
        /\ DotGitTrailerAt(s, k)
        /\ \E j \in 1..k :
              /\ s[j] = 58
              /\ \A m \in (j + 1)..k : s[m] # 10
              /\ \E i \in 0..(j - 1) : IsScheme(Slice(s, i, j))

\* The eight rules of a reference name, char by char.
RefRules(s) ==
    /\ Len(s) = 0 \/ s[1] # 45
    /\ Len(s) = 0 \/ s[Len(s)] # 46
    /\ \A k \in 1..Len(s) : ~(s[k] <= 31 \/ s[k] = 127)
    /\ \A k \in 1..Len(s) : s[k] \notin {32, 126, 94, 58, 92}
    /\ \A k \in 1..(Len(s) - 1) : ~(s[k] = 47 /\ s[k + 1] = 46)
    /\ \A k \in 1..(Len(s) - 1) : ~(s[k] = 64 /\ s[k + 1] = 123)
    /\ \A k \in 1..(Len(s) - 1) : ~(s[k] = 46 /\ s[k + 1] = 46)
    /\ s # <<64>>

\* s starts with "file://" or with "rsync://", or is a bare path: it starts
\* with "/" or with "~/".
FileRsyncOrBarePath(s) ==
    \/ Len(s) >= 7 /\ SubSeq(s, 1, 7) = <<102, 105, 108, 101, 58, 47, 47>>
    \/ Len(s) >= 8 /\ SubSeq(s, 1, 8) = <<114, 115, 121, 110, 99, 58, 47, 47>>
    \/ Len(s) >= 1 /\ s[1] = 47
    \/ Len(s) >= 2 /\ s[1] = 126 /\ s[2] = 47

(***************************************************************************)
(* Claims                                                                  *)
(***************************************************************************)

\* C1: BranchName::from_str(s) is Ok exactly when s satisfies all eight
\* rules (the empty string included); otherwise it is Err(InvalidRefName)
\* and no other error kind.
C1_RefNameOkIffRules ==
    branchName.tag # "NoCall" =>
        IF RefRules(input)
        THEN branchName.tag = "Ok"
        ELSE branchName = Err("InvalidRefName")

\* The empty string has been accepted.
C1_Witness ==
    /\ branchName.tag = "Ok"
    /\ input = <<>>

\* C2 as stated: GitUrl::from_str(s) is Ok exactly when s contains, in
\* order, a scheme prefix, an optional "//", any sequence of any characters,
\* ".git" and a permitted trailer up to the end; otherwise Err(InvalidUrl).
C2_AsStated ==
    gitUrl.tag # "NoCall" =>
        IF GrammarAnyChars(input)
        THEN gitUrl.tag = "Ok"
        ELSE gitUrl = Err("InvalidUrl")

\* C2 amended: the same with the sequence between the scheme prefix and
\* ".git" made of any characters other than the line feed.
C2_OkIffGrammarOneLine ==
    gitUrl.tag # "NoCall" =>
        IF GrammarOneLine(input)
        THEN gitUrl.tag = "Ok"
        ELSE gitUrl = Err("InvalidUrl")

\* An input with a line feed between scheme prefix and ".git" was rejected,
\* and so it was for that reason alone.
C2_Witness ==
    /\ gitUrl = Err("InvalidUrl")
    /\ GrammarAnyChars(input)

\* C3: every input that starts with "file://" or "rsync://", whatever
\* follows, and every bare filesystem path is rejected with Err(InvalidUrl).
C3_RejectsFileRsyncAndPaths ==
    (gitUrl.tag # "NoCall" /\ FileRsyncOrBarePath(input)) =>
        gitUrl = Err("InvalidUrl")

\* C4: an accepted input ends with ".git" followed by nothing, by a single
\* "/" or by "#" and one or more word, hyphen or dot characters; an input
\* that does not is rejected with Err(InvalidUrl).
C4_TrailerAllowList ==
    /\ gitUrl.tag = "Ok" => EndsWithDotGitTrailer(input)
    /\ (gitUrl.tag # "NoCall" /\ ~EndsWithDotGitTrailer(input)) =>
            gitUrl = Err("InvalidUrl")

\* An input with scheme prefix and ".git" was rejected for what follows its
\* ".git".
C4_Witness ==
    /\ gitUrl = Err("InvalidUrl")
    /\ ~EndsWithDotGitTrailer(input)
    /\ \E k \in 0..Len(input) : GrammarOneLine(Slice(input, 0, k))

\* C5: every GitUrl that exists wraps a string of the URL grammar, every
\* BranchName that exists wraps a string that satisfies the eight rules, and
\* no operation changes a wrapper once it is constructed.
C5_WrappersStayValid ==
    /\ [](/\ \A r \in {gitUrl, gitUrlAgain} :
                r.tag = "Ok" => GrammarOneLine(r.val.value)
          /\ \A r \in {branchName, branchNameAgain, deserialized} :
                r.tag = "Ok" => RefRules(r.val.value))
    /\ [][/\ gitUrl.tag = "Ok" => gitUrl' = gitUrl
          /\ gitUrlAgain.tag = "Ok" => gitUrlAgain' = gitUrlAgain
          /\ branchName.tag = "Ok" => branchName' = branchName
          /\ branchNameAgain.tag = "Ok" => branchNameAgain' = branchNameAgain
          /\ deserialized.tag = "Ok" => deserialized' = deserialized]_vars

\* A GitUrl has been constructed, rendered and constructed again.
C5_Witness ==
    /\ gitUrl.tag = "Ok"
    /\ gitUrlAgain.tag = "Ok"

\* C6: the rendering of an accepted value is the input, char for char.
C6_RoundTrip ==
    /\ urlText.tag = "Some" => urlText.val = input
    /\ refText.tag = "Some" => refText.val = input

\* An accepted URL that a trimming would change has been rendered.
C6_Witness ==
    /\ urlText.tag = "Some"
    /\ input[1] = 10

\* C7: the rendering of an accepted value is accepted again, and the value
\* it yields wraps the string the first value wraps.
C7_Idempotent ==
    /\ gitUrlAgain.tag # "NoCall" =>
          /\ gitUrlAgain.tag = "Ok"
          /\ gitUrlAgain.val.value = gitUrl.val.value
    /\ branchNameAgain.tag # "NoCall" =>
          /\ branchNameAgain.tag = "Ok"
          /\ branchNameAgain.val.value = branchName.val.value

\* A rendered reference name of several chars was validated again.
C7_Witness ==
    /\ branchNameAgain.tag = "Ok"
    /\ Len(input) > 1

\* C8: the pattern compiles, and every call of a constructor has returned
\* Ok with its wrapper or Err with its own error kind; none has panicked or
\* had a third outcome.
C8_Total ==
    /\ re.tag = "Ok"
    /\ \A r \in {gitUrl, gitUrlAgain} :
          r.tag # "NoCall" =>
              \/ r.tag = "Ok" /\ r.val.type = "GitUrl"
              \/ r = Err("InvalidUrl")
    /\ \A r \in {branchName, branchNameAgain} :
          r.tag # "NoCall" =>
              \/ r.tag = "Ok" /\ r.val.type = "BranchName"
              \/ r = Err("InvalidRefName")

\* Both constructors have returned on an input that holds a NUL.
C8_Witness ==
    /\ gitUrl.tag # "NoCall"
    /\ branchName.tag # "NoCall"
    /\ \E k \in 1..Len(input) : input[k] = 0

\* C9: deserialize returns Ok(BranchName wrapping s) exactly when the field
\* holds a string s that satisfies the eight rules; for a string that
\* violates a rule it returns the custom deserialization error made from
\* InvalidRefName, and for a field that holds no string the deserializer's
\* error.
C9_DeserializeValidates ==
    deserialized.tag # "NoCall" =>
        IF field.kind = "string"
        THEN IF RefRules(field.s)
             THEN deserialized = Ok(BranchName(field.s))
             ELSE deserialized = Err([de |-> "custom", msg |-> "InvalidRefName"])
        ELSE /\ deserialized.tag = "Err"
             /\ deserialized.err.de # "custom"

\* A string field that violates a rule has been refused.
C9_Witness ==
    /\ deserialized.tag = "Err"
    /\ field.kind = "string"
    /\ field.s = <<64>>

\* C10: with any string put before an accepted input the whole is accepted
\* too, and the GitUrl wraps the whole.
C10_ClosedUnderPrefixing ==
    gitUrl.tag = "Ok" =>
        \A p \in Prefixes : GitUrl_from_str(p \o input) = Ok(GitUrl(p \o input))

\* An accepted input that already carries a prefix before its scheme.
C10_Witness ==
    /\ gitUrl.tag = "Ok"
    /\ ~IsScheme(Slice(input, 0, 4))
    /\ \E p \in Prefixes : p # <<>> /\ Len(p \o input) > Len(input)

=============================================================================
